---- MODULE Spec2Model ----
(***************************************************************************)
(* Model of schematools.events: the EventsProcessor that projects GOB      *)
(* events (ADD / MODIFY / DELETE) onto json blobs                           *)
(* (schematools/events/json.py, schematools/events/fetchers.py), and of    *)
(* schematools.permissions (second part of the module).                    *)
(*                                                                         *)
(* Representation of python values.                                        *)
(*   - a json value is a record [t, v]: t is its python type ("str",       *)
(*     "int", "null", "dict", "list"), v its text as str() renders it;     *)
(*   - a python dict with string keys is a function from its keys;         *)
(*   - Optional[dict] is a record [is_none, fields];                       *)
(*   - a string that the code only ever splits on ":" (the crs) is kept   *)
(*     as the sequence of its segments;                                    *)
(*   - a call that raises yields [ok |-> FALSE, err |-> exception name].   *)
(***************************************************************************)
EXTENDS Naturals, Sequences, FiniteSets, TLC

VARIABLES
    datasets,              \* EventsProcessor.datasets: ids, in insertion order
    use_dimension_fields,  \* DatasetSchema.use_dimension_fields of each loaded dataset
    geo_fields,            \* EventsProcessor.geo_fields (defaultdict of defaultdict of list)
    pc,                    \* the caller's position: "idle", or "returned" from fetch_blob
    call,                  \* arguments of the fetch_blob call that returned
    dispatched,            \* method that fetch_blob call handed the event to
    result,                \* what that fetch_blob call returned or raised
    pg_roles,              \* backend: the roles (pg_roles.rolname), committed
    pg_acl,                \* backend: the table and column privileges, committed
    pg_columns,            \* backend: the <<table, column>> pairs that exist
    existing_roles,        \* permissions.existing_roles, the module-level set
    create_role_issued,    \* history: times CREATE ROLE was sent, per role
    apply_pc,              \* the permissions caller: "idle", or "returned" from a run
    run,                   \* the run that returned: arguments, state before, outcome
    runs                   \* number of permissions commands given so far

event_vars == <<datasets, use_dimension_fields, geo_fields, pc, call, dispatched, result>>

perm_vars == <<pg_roles, pg_acl, pg_columns, existing_roles, create_role_issued, apply_pc,
               run, runs>>

vars == <<event_vars, perm_vars>>

\* the permissions side while only events are processed
PermIdle ==
    /\ pg_roles = {}
    /\ pg_acl = {}
    /\ pg_columns = {}
    /\ existing_roles = {}
    /\ create_role_issued = <<>>
    /\ apply_pc = "idle"
    /\ run = [op |-> "none"]
    /\ runs = 0

(***************************************************************************)
(* Bounds of the model.                                                    *)
(***************************************************************************)
MaxMods == 2       \* entries in the modifications list of a MODIFY body
MaxRuns == 2       \* permissions commands given in one process
MaxRepeats == 1    \* times one permissions command is run again

(***************************************************************************)
(* Python values.                                                          *)
(***************************************************************************)
StrVal(s) == [t |-> "str", v |-> s]
IntVal(s) == [t |-> "int", v |-> s]
NullVal == [t |-> "null", v |-> "None"]
DictVal == [t |-> "dict", v |-> "{'bronwaarde': 'x'}"]
ListVal == [t |-> "list", v |-> "[{'bronwaarde': 'x'}]"]

EmptyDict == [k \in {} |-> NullVal]
None == [is_none |-> TRUE, fields |-> EmptyDict]
Some(d) == [is_none |-> FALSE, fields |-> d]

\* {**a, **b}: the keys of both, b winning
DictMerge(a, b) == [k \in DOMAIN a \cup DOMAIN b |-> IF k \in DOMAIN b THEN b[k] ELSE a[k]]

\* python str(value)
Str(val) == val.v

Raise(e) == [ok |-> FALSE, err |-> e]
Return(x) == [ok |-> TRUE, val |-> x]

(***************************************************************************)
(* The schema documents a processor can be built from.  A dataset has an  *)
(* id, a crs and a list of tables; a table has an id, a list of fields    *)
(* (name, type) and the list of field names that make its identifier.     *)
(***************************************************************************)
GeoJsonTypes == {"https://geojson.org/schema/Geometry.json", "https://geojson.org/schema/Point.json"}

Field(n, ty) == [name |-> n, type |-> ty]

Gebieden ==
    [id |-> "gebieden",
     crs |-> <<"EPSG", "28992">>,
     tables |-> <<
        [id |-> "bouwblokken",
         identifier |-> <<"identificatie", "volgnummer">>,
         fields |-> << Field("identificatie", "string"),
                       Field("volgnummer", "integer"),
                       Field("code", "string"),
                       Field("geometrie", "https://geojson.org/schema/Geometry.json"),
                       Field("ligt_in_buurt", "object") >>] >>]

Bag ==
    [id |-> "bag",
     crs |-> <<"EPSG", "4326">>,
     tables |-> <<
        [id |-> "panden",
         identifier |-> <<"identificatie">>,
         fields |-> << Field("identificatie", "string"),
                       Field("oppervlakte", "number"),
                       Field("code", "string"),
                       Field("geom", "https://geojson.org/schema/Point.json"),
                       Field("is_actueel", "boolean") >>] >>]

SchemaDocs == ("gebieden" :> Gebieden) @@ ("bag" :> Bag)

\* the lists of datasets a processor is built from
DatasetLists == { <<"gebieden">>, <<"bag">>, <<"gebieden", "bag">>, <<"bag", "gebieden">> }

Range(s) == { s[i] : i \in DOMAIN s }

\* DatasetSchema.get_table_by_id
get_table_by_id(dataset, table_id) ==
    IF \E i \in DOMAIN dataset.tables : dataset.tables[i].id = table_id
    THEN Return(dataset.tables[CHOOSE i \in DOMAIN dataset.tables : dataset.tables[i].id = table_id])
    ELSE Raise("SchemaObjectNotFound")

\* DatasetFieldSchema.is_geo
is_geo(table_field) == table_field.type \in GeoJsonTypes

(***************************************************************************)
(* schematools/events/fetchers.py                                          *)
(* A message body is a dict: `keys` are the keys it has, `entity` the dict *)
(* under "entity", `modifications` the list under "modifications".         *)
(***************************************************************************)
fetch_insert_data(event_data) ==
    IF "entity" \notin event_data.keys THEN Raise("KeyError")
    ELSE LET entity == event_data.entity
             kept == { k \in DOMAIN entity : entity[k].t # "dict" }
         IN  Return([k \in kept |-> entity[k]])

RECURSIVE update_data_loop(_, _)
update_data_loop(modifications, update_data) ==
    IF modifications = <<>> THEN update_data
    ELSE LET modification == Head(modifications)
         IN  IF modification.key = "geometrie"
             THEN update_data_loop(Tail(modifications), update_data)
             ELSE update_data_loop(Tail(modifications),
                                   DictMerge(update_data, modification.key :> modification.new_value))

fetch_update_data(event_data) ==
    IF "modifications" \notin event_data.keys THEN Raise("KeyError")
    ELSE Return(update_data_loop(event_data.modifications, EmptyDict))

(***************************************************************************)
(* schematools/events/json.py                                              *)
(***************************************************************************)
EMPTY_VALUES == ("string" :> StrVal("")) @@ ("number" :> NullVal) @@ ("integer" :> NullVal)

EVENT_TYPE_MAPPING == {"ADD", "MODIFY"}

data_fetcher(event_type, message_body) ==
    IF event_type = "ADD" THEN fetch_insert_data(message_body) ELSE fetch_update_data(message_body)

Blob(key, dataset_id, table_id, fields) ==
    [key |-> key, dataset_id |-> dataset_id, table_id |-> table_id, fields |-> fields]

\* the fields_dict that the loop of BlobMaker.fetch_empty_blob fills
fields_dict(table_schema) ==
    LET fs == table_schema.fields
        kept == { i \in DOMAIN fs : fs[i].type \in DOMAIN EMPTY_VALUES \/ fs[i].type \in GeoJsonTypes }
    IN  [n \in { fs[i].name : i \in kept } |->
            LET i == CHOOSE j \in kept : fs[j].name = n
            IN  IF fs[i].type \in DOMAIN EMPTY_VALUES THEN EMPTY_VALUES[fs[i].type] ELSE NullVal]

\* BlobMaker.fetch_empty_blob; `udf` is use_dimension_fields, returned as the call leaves it
fetch_empty_blob(loaded, udf, dataset_id, table_id) ==
    IF dataset_id \notin Range(loaded)
    THEN [ok |-> FALSE, err |-> "KeyError", udf |-> udf]
    ELSE LET udf1 == [udf EXCEPT ![dataset_id] = FALSE]
             table_schema == get_table_by_id(SchemaDocs[dataset_id], table_id)
         IN  IF ~table_schema.ok
             THEN [ok |-> FALSE, err |-> table_schema.err, udf |-> udf1]
             ELSE [ok |-> TRUE,
                   val |-> Blob(NullVal, dataset_id, table_id, fields_dict(table_schema.val)),
                   udf |-> udf1]

\* fetch_updated_blob with the two dicts merged the other way round: the base wins
fetch_updated_blob_base_wins(blob, field_updates) ==
    Blob(blob.key, blob.dataset_id, blob.table_id, DictMerge(field_updates, blob.fields))

\* BlobMaker.fetch_updated_blob
fetch_updated_blob(blob, field_updates) ==
    Blob(blob.key, blob.dataset_id, blob.table_id, DictMerge(blob.fields, field_updates))

(***************************************************************************)
(* EventsProcessor.geo_fields is a defaultdict(lambda: defaultdict(list)): *)
(* a function from the dataset ids it holds to functions from table ids   *)
(* to lists of field names.  Reading a missing key inserts it.             *)
(***************************************************************************)
EmptyGeoFields == [d \in {} |-> [t \in {} |-> <<>>]]

\* geo_fields[dataset_id][table_id], as the read leaves geo_fields
geo_fields_get(gf, dataset_id, table_id) ==
    LET inner == IF dataset_id \in DOMAIN gf THEN gf[dataset_id] ELSE [t \in {} |-> <<>>]
        names == IF table_id \in DOMAIN inner THEN inner[table_id] ELSE <<>>
    IN  [val |-> names, gf |-> DictMerge(gf, dataset_id :> DictMerge(inner, table_id :> names))]

RECURSIVE collect_fields(_, _, _, _)
\* the innermost loop of __init__: append the geo fields of one table
collect_fields(gf, dataset_id, table, i) ==
    IF i > Len(table.fields) THEN gf
    ELSE IF is_geo(table.fields[i])
         THEN LET got == geo_fields_get(gf, dataset_id, table.id)
                  appended == Append(got.val, table.fields[i].name)
              IN  collect_fields([got.gf EXCEPT ![dataset_id][table.id] = appended],
                                 dataset_id, table, i + 1)
         ELSE collect_fields(gf, dataset_id, table, i + 1)

RECURSIVE collect_tables(_, _, _)
collect_tables(gf, dataset, i) ==
    IF i > Len(dataset.tables) THEN gf
    ELSE collect_tables(collect_fields(gf, dataset.id, dataset.tables[i], 1), dataset, i + 1)

RECURSIVE init_geo_fields(_, _, _)
\* the loop of EventsProcessor.__init__ over the datasets: every iteration
\* assigns a fresh defaultdict to self.geo_fields before it collects
init_geo_fields(loaded, i, gf) ==
    IF i > Len(loaded) THEN gf
    ELSE init_geo_fields(loaded, i + 1, collect_tables(EmptyGeoFields, SchemaDocs[loaded[i]], 1))

RECURSIVE decorate_geo(_, _, _)
\* the loop of process_message over the geo fields of the table
decorate_geo(names, event_data, dataset) ==
    IF names = <<>> THEN Return(event_data)
    ELSE LET field_name == Head(names)
             geo_value == IF field_name \in DOMAIN event_data THEN event_data[field_name] ELSE NullVal
         IN  IF geo_value.t = "null"
             THEN decorate_geo(Tail(names), event_data, dataset)
             ELSE IF Len(dataset.crs) < 2 THEN Raise("IndexError")
             ELSE LET srid == dataset.crs[2]
                      value == StrVal("SRID=" \o srid \o ";" \o Str(geo_value))
                  IN  decorate_geo(Tail(names), DictMerge(event_data, field_name :> value), dataset)

RECURSIVE join_identifier(_, _)
\* ".".join(str(event_data[fn]) for fn in identifier)
join_identifier(identifier, event_data) ==
    IF identifier = <<>> THEN Return("")
    ELSE IF Head(identifier) \notin DOMAIN event_data THEN Raise("KeyError")
    ELSE LET rest == join_identifier(Tail(identifier), event_data)
         IN  IF ~rest.ok THEN rest
             ELSE IF Tail(identifier) = <<>> THEN Return(Str(event_data[Head(identifier)]))
             ELSE Return(Str(event_data[Head(identifier)]) \o "." \o rest.val)

Outcome(res, udf, gf) == [res |-> res, udf |-> udf, gf |-> gf]
Raised(e) == [status |-> "error", error |-> e]
Returned(blob) == [status |-> "ok", blob |-> blob]

\* lines 147-155 of process_message: decorate the geo fields, merge
process_message_tail(loaded, udf, gf, dataset_id, table_id, current_blob, event_data) ==
    LET got == geo_fields_get(gf, dataset_id, table_id)
        decorated == IF got.val = <<>> THEN Return(event_data)
                     ELSE decorate_geo(got.val, event_data, SchemaDocs[dataset_id])
    IN  IF ~decorated.ok THEN Outcome(Raised(decorated.err), udf, got.gf)
        ELSE Outcome(Returned(fetch_updated_blob(current_blob, decorated.val)), udf, got.gf)

\* process_message without the assert of lines 142-144: a missing
\* current_blob_value is taken for an empty one
process_message_no_assert(loaded, udf, gf, message_key, message_headers, message_body, current_blob_value) ==
    LET event_type == message_headers.event_type
        dataset_id == message_headers.catalog
        table_id == message_headers.collection
    IN  IF event_type \notin EVENT_TYPE_MAPPING THEN Outcome(Raised("KeyError"), udf, gf)
        ELSE LET event_data == data_fetcher(event_type, message_body)
        IN  IF ~event_data.ok THEN Outcome(Raised(event_data.err), udf, gf)
        ELSE IF event_type = "ADD"
        THEN LET current_blob == fetch_empty_blob(loaded, udf, dataset_id, table_id)
             IN  IF ~current_blob.ok THEN Outcome(Raised(current_blob.err), current_blob.udf, gf)
                 ELSE LET identifier == get_table_by_id(SchemaDocs[dataset_id], table_id).val.identifier
                          id_value == join_identifier(identifier, event_data.val)
                      IN  IF ~id_value.ok THEN Outcome(Raised(id_value.err), current_blob.udf, gf)
                          ELSE process_message_tail(loaded, current_blob.udf, gf, dataset_id, table_id,
                                                    current_blob.val, event_data.val)
        ELSE process_message_tail(loaded, udf, gf, dataset_id, table_id,
                                  Blob(StrVal(message_key), dataset_id, table_id, current_blob_value.fields),
                                  event_data.val)

\* EventsProcessor.process_message
process_message(loaded, udf, gf, message_key, message_headers, message_body, current_blob_value) ==
    LET event_type == message_headers.event_type
        dataset_id == message_headers.catalog
        table_id == message_headers.collection
    IN  IF event_type \notin EVENT_TYPE_MAPPING THEN Outcome(Raised("KeyError"), udf, gf)
        ELSE LET event_data == data_fetcher(event_type, message_body)
        IN  IF ~event_data.ok THEN Outcome(Raised(event_data.err), udf, gf)
        ELSE IF event_type = "ADD"
        THEN LET current_blob == fetch_empty_blob(loaded, udf, dataset_id, table_id)
             IN  IF ~current_blob.ok THEN Outcome(Raised(current_blob.err), current_blob.udf, gf)
                 ELSE LET identifier == get_table_by_id(SchemaDocs[dataset_id], table_id).val.identifier
                          id_value == join_identifier(identifier, event_data.val)
                      IN  IF ~id_value.ok THEN Outcome(Raised(id_value.err), current_blob.udf, gf)
                          ELSE process_message_tail(loaded, current_blob.udf, gf, dataset_id, table_id,
                                                    current_blob.val, event_data.val)
        ELSE IF current_blob_value.is_none THEN Outcome(Raised("AssertionError"), udf, gf)
        ELSE process_message_tail(loaded, udf, gf, dataset_id, table_id,
                                  Blob(StrVal(message_key), dataset_id, table_id, current_blob_value.fields),
                                  event_data.val)

\* EventsProcessor.process_relation: a stub, returns None
process_relation(loaded, udf, gf, message_key, message_headers, message_body, current_blob_value) ==
    Outcome([status |-> "none"], udf, gf)

\* EventsProcessor.fetch_blob: the method it hands the event to
fetch_blob_target(message_headers) ==
    LET is_relation == message_headers.catalog = "rel"
    IN  "process_message"

(***************************************************************************)
(* The events a caller hands to fetch_blob.                                *)
(***************************************************************************)
EventTypes == {"ADD", "MODIFY", "DELETE"}
Catalogs == {"gebieden", "bag", "rel"}
Collections == {"bouwblokken", "panden"}
MessageKeys == {"gebieden.bouwblokken.03630012096976.1"}

Headers(event_type) ==
    { [event_type |-> event_type, catalog |-> c, collection |-> t] : c \in Catalogs, t \in Collections }

Polygon == StrVal("POLYGON((...))")
Point == StrVal("POINT(1 2)")
GeoJson == StrVal("{'type': 'Point'}")

Entities ==
    { ("identificatie" :> StrVal("03630012096976")) @@ ("volgnummer" :> IntVal("1"))
        @@ ("code" :> StrVal("AA01")) @@ ("geometrie" :> Polygon) @@ ("ligt_in_buurt" :> DictVal),
      ("identificatie" :> StrVal("03630012096976")) @@ ("volgnummer" :> IntVal("2"))
        @@ ("code" :> NullVal) @@ ("geometrie" :> NullVal) @@ ("ligt_in_wijken" :> ListVal),
      ("identificatie" :> StrVal("0363100012061164")) @@ ("code" :> NullVal)
        @@ ("geom" :> Point) @@ ("_hash" :> StrVal("c39a")),
      ("identificatie" :> StrVal("0363100012061164")) @@ ("bouwjaar" :> IntVal("1900"))
        @@ ("heeft_dossier" :> DictVal),
      ("code" :> StrVal("AA02")) @@ ("geometrie" :> Polygon) }

EntityBody(entity) == [keys |-> {"entity"}, entity |-> entity, modifications |-> <<>>]
ModificationsBody(mods) == [keys |-> {"modifications"}, entity |-> EmptyDict, modifications |-> mods]
EmptyBody == [keys |-> {}, entity |-> EmptyDict, modifications |-> <<>>]

Modification(k, v) == [key |-> k, new_value |-> v]

ModificationEntries ==
    { Modification("code", StrVal("AA02")), Modification("code", NullVal),
      Modification("geometrie", GeoJson), Modification("geom", GeoJson) }

RECURSIVE SeqsUpTo(_, _)
SeqsUpTo(S, n) ==
    IF n = 0 THEN { <<>> }
    ELSE LET shorter == SeqsUpTo(S, n - 1)
         IN  shorter \cup { Append(q, x) : q \in shorter, x \in S }

ModificationLists == SeqsUpTo(ModificationEntries, MaxMods)

EntityBodies == { EntityBody(e) : e \in Entities }
ModificationsBodies == { ModificationsBody(m) : m \in ModificationLists }

\* the state a caller keeps for the key: what an earlier ADD returned
StoredFields ==
    ("identificatie" :> StrVal("03630012096976")) @@ ("volgnummer" :> IntVal("1"))
      @@ ("code" :> StrVal("AA01")) @@ ("geometrie" :> StrVal("SRID=28992;POLYGON((...))"))

PriorStates == { None, Some(StoredFields) }

NoCall ==
    [message_key |-> "",
     message_headers |-> [event_type |-> "", catalog |-> "", collection |-> ""],
     message_body |-> EmptyBody,
     current_blob_value |-> None]

(***************************************************************************)
(* The state machine: a processor is built from a list of datasets, then  *)
(* the caller hands it one event after the other.                          *)
(***************************************************************************)
Init ==
    /\ datasets \in DatasetLists
    /\ \E b \in BOOLEAN : use_dimension_fields = [d \in Range(datasets) |-> b]
    /\ geo_fields = init_geo_fields(datasets, 1, EmptyGeoFields)
    /\ pc = "idle"
    /\ call = NoCall
    /\ dispatched = "none"
    /\ result = [status |-> "none"]
    /\ PermIdle

\* EventsProcessor.fetch_blob
FetchBlob(message_key, message_headers, message_body, current_blob_value) ==
    /\ pc = "idle"
    /\ LET target == fetch_blob_target(message_headers)
           out == IF target = "process_relation"
                  THEN process_relation(datasets, use_dimension_fields, geo_fields,
                                        message_key, message_headers, message_body, current_blob_value)
                  ELSE process_message(datasets, use_dimension_fields, geo_fields,
                                       message_key, message_headers, message_body, current_blob_value)
       IN  /\ dispatched' = target
           /\ result' = out.res
           /\ use_dimension_fields' = out.udf
           /\ geo_fields' = out.gf
    /\ call' = [message_key |-> message_key, message_headers |-> message_headers,
                message_body |-> message_body, current_blob_value |-> current_blob_value]
    /\ pc' = "returned"
    /\ UNCHANGED <<datasets, perm_vars>>

AddEvent ==
    \E k \in MessageKeys, h \in Headers("ADD"), b \in EntityBodies \cup {EmptyBody}, p \in PriorStates :
        FetchBlob(k, h, b, p)

ModifyEvent ==
    \E k \in MessageKeys, h \in Headers("MODIFY"), b \in ModificationsBodies \cup {EmptyBody},
       p \in PriorStates :
        FetchBlob(k, h, b, p)

DeleteEvent ==
    \E k \in MessageKeys, h \in Headers("DELETE"), p \in PriorStates :
        FetchBlob(k, h, EmptyBody, p)

\* the caller takes what fetch_blob returned and turns to the next message
NextMessage ==
    /\ pc = "returned"
    /\ pc' = "idle"
    /\ call' = NoCall
    /\ dispatched' = "none"
    /\ result' = [status |-> "none"]
    /\ UNCHANGED <<datasets, use_dimension_fields, geo_fields, perm_vars>>

Next == AddEvent \/ ModifyEvent \/ DeleteEvent \/ NextMessage

Spec == Init /\ [][Next]_vars

\* the events side while only permissions are applied
EventsIdle ==
    /\ datasets = <<>>
    /\ use_dimension_fields = <<>>
    /\ geo_fields = EmptyGeoFields
    /\ pc = "idle"
    /\ call = NoCall
    /\ dispatched = "none"
    /\ result = [status |-> "none"]

(***************************************************************************)
(* The claims.  Each is stated about the fetch_blob call that has just    *)
(* returned: `call` holds its arguments, `result` what it gave.            *)
(***************************************************************************)
ReturnedFrom(event_type) == pc = "returned" /\ call.message_headers.event_type = event_type

CallDataset == call.message_headers.catalog
CallTable == call.message_headers.collection

\* the event names a dataset of the loaded schema set and a table of it
CallSchemaKnown ==
    /\ CallDataset \in Range(datasets)
    /\ \E i \in DOMAIN SchemaDocs[CallDataset].tables : SchemaDocs[CallDataset].tables[i].id = CallTable

\* the schema of the event's table, for an event with a known schema
CallTableSchema ==
    LET ts == SchemaDocs[CallDataset].tables
    IN  ts[CHOOSE i \in DOMAIN ts : ts[i].id = CallTable]

\* the names of the fields the schema flags as geo in the event's table
CallSchemaGeoNames ==
    { CallTableSchema.fields[i].name : i \in { j \in DOMAIN CallTableSchema.fields :
                                                 CallTableSchema.fields[j].type \in GeoJsonTypes } }

\* the type-derived empty template of the event's table, in the claim's words:
\* "" for string, null for number / integer / geo, other types omitted
CallTemplate ==
    LET fs == CallTableSchema.fields
        kept == { i \in DOMAIN fs : fs[i].type \in {"string", "number", "integer"} \cup GeoJsonTypes }
    IN  [n \in { fs[i].name : i \in kept } |->
            IF \E i \in kept : fs[i].name = n /\ fs[i].type = "string" THEN StrVal("") ELSE NullVal]

\* F has the keys of base and of over, with over's value where both have the key
IsOverlay(F, base, over) ==
    /\ DOMAIN F = DOMAIN base \cup DOMAIN over
    /\ \A k \in DOMAIN over : F[k] = over[k]
    /\ \A k \in DOMAIN base \ DOMAIN over : F[k] = base[k]

Prefixed(srid, val) == StrVal("SRID=" \o srid \o ";" \o val.v)

\* C1: a DELETE event yields a record with null fields and event kind DELETE
\* that keeps key, dataset id and table id; it does not fail.
C1_DeleteYieldsTombstone ==
    ReturnedFrom("DELETE") =>
        /\ result.status = "ok"
        /\ result.blob.key = StrVal(call.message_key)
        /\ result.blob.dataset_id = CallDataset
        /\ result.blob.table_id = CallTable
        /\ "event_type" \in DOMAIN result.blob
        /\ result.blob.event_type = "DELETE"
        /\ result.blob.fields = NullVal

\* C2 as claimed: the fields an ADD returns are the empty template of the
\* table overlaid with the extracted entity fields, the extracted value winning.
C2_AddIsTemplateOverlaidWithExtracted ==
    (ReturnedFrom("ADD") /\ result.status = "ok") =>
        IsOverlay(result.blob.fields, CallTemplate, fetch_insert_data(call.message_body).val)

\* the extracted fields with every non-null value of a field of the
\* processor's geo-field list for the table in its SRID-prefixed form
ExtractedWithSrid ==
    LET extracted == fetch_insert_data(call.message_body).val
        listed == Range(geo_fields[CallDataset][CallTable])
        srid == SchemaDocs[CallDataset].crs[2]
    IN  [k \in DOMAIN extracted |->
            IF k \in listed /\ extracted[k].t # "null" THEN Prefixed(srid, extracted[k])
            ELSE extracted[k]]

\* C2 as amended: the fields an ADD returns are the empty template of the
\* table overlaid with the extracted entity fields, the extracted value winning
\* (an explicit null included), where a non-null extracted value of a field in
\* the processor's geo-field list for the table stands in its SRID-prefixed
\* form; a field in neither is absent, whatever prior state the caller passed.
C2_AddIsTemplateOverlaidWithDecorated ==
    (ReturnedFrom("ADD") /\ result.status = "ok") =>
        IsOverlay(result.blob.fields, CallTemplate, ExtractedWithSrid)

\* an ADD with prior state passed has returned fields in which an extracted
\* null won over the template's "", a geometry stands SRID-prefixed, a template
\* default was kept for a field the entity lacks, a key outside the schema came
\* through, and nothing of the prior state shows
C2_Witness ==
    /\ ReturnedFrom("ADD") /\ result.status = "ok"
    /\ ~call.current_blob_value.is_none
    /\ {"code", "geom"} \subseteq DOMAIN call.message_body.entity
    /\ call.message_body.entity["code"] = NullVal
    /\ result.blob.fields["code"] = NullVal
    /\ call.message_body.entity["geom"] = Point
    /\ result.blob.fields["geom"] = StrVal("SRID=4326;POINT(1 2)")
    /\ "oppervlakte" \notin DOMAIN call.message_body.entity
    /\ result.blob.fields["oppervlakte"] = NullVal
    /\ "_hash" \in DOMAIN result.blob.fields
    /\ "volgnummer" \notin DOMAIN result.blob.fields

\* C3: the fields a MODIFY returns are the shallow union of the prior fields
\* and the extracted fields, the extracted value winning on every shared key.
C3_ModifyIsPriorOverlaidWithExtracted ==
    (ReturnedFrom("MODIFY") /\ result.status = "ok") =>
        IsOverlay(result.blob.fields, call.current_blob_value.fields,
                  fetch_update_data(call.message_body).val)

\* C4: a MODIFY event processed without prior state fails, with the
\* precondition error when its body is a MODIFY body, and no state record is
\* returned for it.
C4_ModifyWithoutPriorFails ==
    (ReturnedFrom("MODIFY") /\ call.current_blob_value.is_none) =>
        /\ result.status = "error"
        /\ "modifications" \in call.message_body.keys => result.error = "AssertionError"

\* a MODIFY of a loaded dataset with a non-empty modifications list and no
\* prior state has been processed and raised
C4_Witness ==
    /\ ReturnedFrom("MODIFY")
    /\ call.current_blob_value.is_none
    /\ CallSchemaKnown
    /\ call.message_body.modifications # <<>>
    /\ result = Raised("AssertionError")

\* the identifier values of the event data, stringified and joined with "."
RECURSIVE DottedValues(_, _)
DottedValues(names, data) ==
    IF Len(names) = 1 THEN data[names[1]].v
    ELSE data[names[1]].v \o "." \o DottedValues(Tail(names), data)

\* C5: the record an ADD returns carries the storage key
\* "{dataset_id}.{table_id}.{identifier_value}".
C5_AddCarriesStorageKey ==
    (ReturnedFrom("ADD") /\ result.status = "ok") =>
        result.blob.key = StrVal(CallDataset \o "." \o CallTable \o "."
                                 \o DottedValues(CallTableSchema.identifier, call.message_body.entity))

\* the fields the extractor of the event's kind gives for the body
CallExtracted == data_fetcher(call.message_headers.event_type, call.message_body).val

\* the last segment of the crs of the event's dataset
CallSrid == SchemaDocs[CallDataset].crs[Len(SchemaDocs[CallDataset].crs)]

\* C6: every geo field of the event's table whose extracted value is non-null
\* is stored as "SRID={srid};{value}"; a geo field whose extracted value is
\* null or absent is not decorated.
C6_GeoValuesCarrySrid ==
    (pc = "returned" /\ result.status = "ok" /\ CallSchemaKnown) =>
        \A f \in CallSchemaGeoNames :
            IF f \in DOMAIN CallExtracted /\ CallExtracted[f].t # "null"
            THEN result.blob.fields[f] = Prefixed(CallSrid, CallExtracted[f])
            ELSE f \in DOMAIN CallExtracted => result.blob.fields[f] = CallExtracted[f]

\* C7: for an ADD body the extraction keeps exactly the keys of the entity
\* whose value is neither an object nor an array, each with its value.
C7_InsertDataDropsNested ==
    (ReturnedFrom("ADD") /\ "entity" \in call.message_body.keys) =>
        LET entity == call.message_body.entity
            extracted == fetch_insert_data(call.message_body).val
        IN  /\ DOMAIN extracted = { k \in DOMAIN entity : entity[k].t \notin {"dict", "list"} }
            /\ \A k \in DOMAIN extracted : extracted[k] = entity[k]

\* the new_value of the last entry of the list whose key is k
RECURSIVE LastNewValue(_, _)
LastNewValue(mods, k) ==
    IF mods[Len(mods)].key = k THEN mods[Len(mods)].new_value
    ELSE LastNewValue(SubSeq(mods, 1, Len(mods) - 1), k)

\* C8: for a MODIFY body the extraction copies new_value under key, a later
\* entry winning, except the entries whose key is a geo field of the event's
\* table: no geo field is in the extracted mapping, and the MODIFY leaves the
\* stored geometry as it was.
C8_UpdateDataSkipsGeometry ==
    (ReturnedFrom("MODIFY") /\ CallSchemaKnown /\ "modifications" \in call.message_body.keys) =>
        LET mods == call.message_body.modifications
            extracted == fetch_update_data(call.message_body).val
            copied == { mods[i].key : i \in DOMAIN mods } \ CallSchemaGeoNames
            prior == call.current_blob_value.fields
        IN  /\ DOMAIN extracted = copied
            /\ \A k \in copied : extracted[k] = LastNewValue(mods, k)
            /\ result.status = "ok" =>
                  \A f \in CallSchemaGeoNames :
                      /\ f \in DOMAIN prior => result.blob.fields[f] = prior[f]
                      /\ f \notin DOMAIN prior => f \notin DOMAIN result.blob.fields

\* C9: an event whose dataset id or table id is not in the loaded schema set
\* fails and returns no state record.
C9_UnknownSchemaFails ==
    (pc = "returned" /\ ~CallSchemaKnown) => result.status = "error"

\* C10: an event with catalog "rel" is handed to process_relation and never
\* to process_message; an event with any other catalog to process_message.
C10_RelationEventsGoToProcessRelation ==
    pc = "returned" =>
        IF CallDataset = "rel" THEN dispatched = "process_relation"
        ELSE dispatched = "process_message"

(***************************************************************************)
(* Model of schematools.permissions (schematools/permissions.py): the     *)
(* compilation of dataset / table / field auth scopes into CREATE ROLE,   *)
(* GRANT and REVOKE statements and their execution on a postgres backend. *)
(*                                                                         *)
(* Representation.                                                         *)
(*   - a name (scope, role, dataset id, table id, field or column name)   *)
(*     is the tuple of its characters, so that lower(), replace(),        *)
(*     startswith() and to_snake_case() are computed and not looked up;   *)
(*   - an auth property is a record [t, v]: t is "none", "str" or "list", *)
(*     v the scopes it lists;                                              *)
(*   - a python set is iterated in the order its elements were listed;    *)
(*   - a function of permissions.py that only calls other functions is    *)
(*     the list of the calls it makes, in order; the calls that reach the *)
(*     backend are run one after the other on the state of the run, and   *)
(*     an exception ends the run;                                          *)
(*   - the backend is its roles, its tables' columns and its privileges,  *)
(*     a privilege being [grantee, table, column, priv] with column "*"   *)
(*     for a privilege on the whole table;                                 *)
(*   - the session (one transaction) sees the committed backend and its   *)
(*     own changes; engine.execute autocommits on a connection of its own.*)
(***************************************************************************)

\* ---- strings ----
UpperCase == <<"A", "B", "C", "D", "E", "F", "G", "H", "I", "J", "K", "L", "M", "N", "O", "P", "Q", "R", "S", "T", "U", "V", "W", "X", "Y", "Z">>
LowerCase == <<"a", "b", "c", "d", "e", "f", "g", "h", "i", "j", "k", "l", "m", "n", "o", "p", "q", "r", "s", "t", "u", "v", "w", "x", "y", "z">>

is_upper(c) == \E i \in DOMAIN UpperCase : UpperCase[i] = c
is_lower(c) == \E i \in DOMAIN LowerCase : LowerCase[i] = c

lower_char(c) ==
    IF is_upper(c) THEN LowerCase[CHOOSE i \in DOMAIN UpperCase : UpperCase[i] = c] ELSE c

\* str.lower
lower(s) == [i \in DOMAIN s |-> lower_char(s[i])]

\* str.replace, for an old and a new string of one character
replace(s, old, new) == [i \in DOMAIN s |-> IF s[i] = old THEN new ELSE s[i]]

\* str.startswith
startswith(s, prefix) ==
    /\ Len(prefix) <= Len(s)
    /\ SubSeq(s, 1, Len(prefix)) = prefix

\* utils.to_snake_case from position i on, for names made of letters and "_"
RECURSIVE to_snake_case_from(_, _)
to_snake_case_from(s, i) ==
    IF i > Len(s) THEN <<>>
    ELSE (IF i > 1 /\ is_upper(s[i]) /\ is_lower(s[i - 1]) THEN <<"_">> ELSE <<>>)
         \o <<lower_char(s[i])>> \o to_snake_case_from(s, i + 1)

to_snake_case(s) == to_snake_case_from(s, 1)

PUBLIC_SCOPE == <<"O", "P", "E", "N", "B", "A", "A", "R">>
AUTO == <<"A", "U", "T", "O">>
STAR == <<"*">>

\* the "/" kept
scope_to_role_slash_kept(scope) == <<"s", "c", "o", "p", "e", "_">> \o lower(scope)

scope_to_role(scope) == <<"s", "c", "o", "p", "e", "_">> \o replace(lower(scope), "/", "_")

\* ---- the names of the tests ----
Scope ==
    [ALL |-> <<"A", "L", "L">>,
     LEVEL_A |-> <<"L", "E", "V", "E", "L", "/", "A">>, LEVEL_B |-> <<"L", "E", "V", "E", "L", "/", "B">>, LEVEL_C |-> <<"L", "E", "V", "E", "L", "/", "C">>,
     LEVEL_A1 |-> <<"L", "E", "V", "E", "L", "/", "A", "1">>, LEVEL_A2 |-> <<"L", "E", "V", "E", "L", "/", "A", "2">>,
     LEVEL_B1 |-> <<"L", "E", "V", "E", "L", "/", "B", "1">>, LEVEL_B2 |-> <<"L", "E", "V", "E", "L", "/", "B", "2">>,
     LEVEL_C1 |-> <<"L", "E", "V", "E", "L", "/", "C", "1">>, LEVEL_C2 |-> <<"L", "E", "V", "E", "L", "/", "C", "2">>,
     BAG_R |-> <<"B", "A", "G", "/", "R">>, FP_MD |-> <<"F", "P", "/", "M", "D">>]

Role ==
    [level_a |-> <<"l", "e", "v", "e", "l", "_", "a">>, level_b |-> <<"l", "e", "v", "e", "l", "_", "b">>, level_c |-> <<"l", "e", "v", "e", "l", "_", "c">>,
     level_b2 |-> <<"l", "e", "v", "e", "l", "_", "b", "2">>, fp_md |-> <<"f", "p", "_", "m", "d">>]

\* dataset ids, table ids and field names of the schemas; tables and columns
\* of the database
Name ==
    [gebieden |-> <<"g", "e", "b", "i", "e", "d", "e", "n">>, afvalwegingen |-> <<"a", "f", "v", "a", "l", "w", "e", "g", "i", "n", "g", "e", "n">>,
     bouwblokken |-> <<"b", "o", "u", "w", "b", "l", "o", "k", "k", "e", "n">>, buurten |-> <<"b", "u", "u", "r", "t", "e", "n">>, wijken |-> <<"w", "i", "j", "k", "e", "n">>,
     containers |-> <<"c", "o", "n", "t", "a", "i", "n", "e", "r", "s">>, clusters |-> <<"c", "l", "u", "s", "t", "e", "r", "s">>,
     schema |-> <<"s", "c", "h", "e", "m", "a">>, id |-> <<"i", "d">>,
     beginGeldigheid |-> <<"b", "e", "g", "i", "n", "G", "e", "l", "d", "i", "g", "h", "e", "i", "d">>, eindGeldigheid |-> <<"e", "i", "n", "d", "G", "e", "l", "d", "i", "g", "h", "e", "i", "d">>,
     begin_geldigheid |-> <<"b", "e", "g", "i", "n", "_", "g", "e", "l", "d", "i", "g", "h", "e", "i", "d">>, eind_geldigheid |-> <<"e", "i", "n", "d", "_", "g", "e", "l", "d", "i", "g", "h", "e", "i", "d">>,
     gebieden_bouwblokken |-> <<"g", "e", "b", "i", "e", "d", "e", "n", "_", "b", "o", "u", "w", "b", "l", "o", "k", "k", "e", "n">>,
     gebieden_buurten |-> <<"g", "e", "b", "i", "e", "d", "e", "n", "_", "b", "u", "u", "r", "t", "e", "n">>,
     gebieden_wijken |-> <<"g", "e", "b", "i", "e", "d", "e", "n", "_", "w", "i", "j", "k", "e", "n">>,
     afvalwegingen_containers |-> <<"a", "f", "v", "a", "l", "w", "e", "g", "i", "n", "g", "e", "n", "_", "c", "o", "n", "t", "a", "i", "n", "e", "r", "s">>,
     afvalwegingen_clusters |-> <<"a", "f", "v", "a", "l", "w", "e", "g", "i", "n", "g", "e", "n", "_", "c", "l", "u", "s", "t", "e", "r", "s">>,
     gebieden_test |-> <<"g", "e", "b", "i", "e", "d", "e", "n", "_", "t", "e", "s", "t">>]

\* ---- schemas ----
NoAuth == [t |-> "none", v |-> <<>>]
StrAuth(scope) == [t |-> "str", v |-> <<scope>>]
ListAuth(scope_list) == [t |-> "list", v |-> scope_list]

AuthField(name, auth) == [name |-> name, auth |-> auth]
AuthTable(id, auth, fields) == [id |-> id, auth |-> auth, fields |-> fields]

\* the fields of a table none of whose fields has an auth
PlainTableFields == <<AuthField(Name.schema, NoAuth), AuthField(Name.id, NoAuth)>>

\* the fields of bouwblokken, beginGeldigheid with the given auth
BouwblokkenFields(auth) ==
    <<AuthField(Name.schema, NoAuth), AuthField(Name.id, NoAuth),
      AuthField(Name.beginGeldigheid, auth), AuthField(Name.eindGeldigheid, NoAuth)>>

\* tests/files/gebieden_auth.json, as far as the tests show it
gebieden_schema_auth ==
    [id |-> Name.gebieden,
     auth |-> StrAuth(Scope.LEVEL_A),
     tables |-> <<
        AuthTable(Name.bouwblokken, StrAuth(Scope.LEVEL_B),
                  BouwblokkenFields(StrAuth(Scope.LEVEL_C))),
        AuthTable(Name.buurten, NoAuth, PlainTableFields),
        AuthTable(Name.wijken, NoAuth, PlainTableFields) >>]

\* tests/files/gebieden_auth_list.json, as far as the tests show it
gebieden_schema_auth_list ==
    [id |-> Name.gebieden,
     auth |-> ListAuth(<<Scope.LEVEL_A1, Scope.LEVEL_A2>>),
     tables |-> <<
        AuthTable(Name.bouwblokken, ListAuth(<<Scope.LEVEL_B1, Scope.LEVEL_B2>>),
                  BouwblokkenFields(ListAuth(<<Scope.LEVEL_C1, Scope.LEVEL_C2>>))),
        AuthTable(Name.buurten, NoAuth, PlainTableFields) >>]

\* tests/files/afval.json, as far as the tests show it
afval_schema ==
    [id |-> Name.afvalwegingen,
     auth |-> NoAuth,
     tables |-> <<
        AuthTable(Name.containers, NoAuth, PlainTableFields),
        AuthTable(Name.clusters, StrAuth(Scope.BAG_R), PlainTableFields) >>]

\* DatasetSchema.get_tables(include_nested=True, include_through=True)
get_tables(ams_schema) == ams_schema.tables

\* tests/files/profiles/gebieden_test.json
gebieden_test_profile ==
    [name |-> Name.gebieden_test, scopes |-> <<Scope.FP_MD>>,
     schema_data |-> [datasets |-> <<Name.gebieden>>]]

RangeOf(s) == {s[i] : i \in DOMAIN s}

\* the lists of a list of lists, one after the other
RECURSIVE Concat(_)
Concat(lists) == IF lists = <<>> THEN <<>> ELSE Head(lists) \o Concat(Tail(lists))

\* the elements of a set as a list (the rows of a query, in the order the
\* backend returns them)
RECURSIVE Rows(_)
Rows(S) == IF S = {} THEN <<>> ELSE LET r == CHOOSE r \in S : TRUE IN <<r>> \o Rows(S \ {r})

\* ---- the statements ----
Statement(verb, privs, table, role) == [verb |-> verb, privs |-> privs, table |-> table, role |-> role]

\* a privilege of a grant: "SELECT" (column "*") or "SELECT (column)"
Priv(priv, column) == [priv |-> priv, column |-> column]

\* a statement that names no table: CREATE ROLE, REVOKE .. ON ALL TABLES
NoTable == <<>>

\* pg_grant.sql.grant(priviliges, PgObjectType.TABLE, table, grantee)
grant(priviliges, table, grantee) == Statement("GRANT", priviliges, table, grantee)

\* pg_grant.sql.revoke("ALL", PgObjectType.TABLE, table, grantee)
revoke(table, grantee) == Statement("REVOKE", <<Priv("ALL", STAR)>>, table, grantee)

\* ---- the backend ----
NoError == "none"

\* the tables that exist
pg_tables(columns) == {c[1] : c \in columns}

\* the privileges a GRANT gives
Privileges(statement) == {[grantee |-> statement.role, table |-> statement.table, column |-> p.column, priv |-> p.priv] : p \in RangeOf(statement.privs)}

\* What postgres answers to one statement, given the roles, privileges and
\* columns it sees: the error it raises (NoError if none), and the roles and
\* privileges after it.  GRANT and REVOKE resolve the table, then the role,
\* then the columns; REVOKE takes the column privileges with the table's.
pg_execute(statement, roles, acl, columns) ==
    CASE statement.verb = "CREATE ROLE" ->
            IF statement.role \in roles
            THEN [error |-> "duplicate_object", roles |-> roles, acl |-> acl]
            ELSE [error |-> NoError, roles |-> roles \cup {statement.role}, acl |-> acl]
      [] statement.verb = "GRANT" ->
            IF statement.table \notin pg_tables(columns)
            THEN [error |-> "undefined_table", roles |-> roles, acl |-> acl]
            ELSE IF statement.role \notin roles
            THEN [error |-> "undefined_object", roles |-> roles, acl |-> acl]
            ELSE IF \E p \in RangeOf(statement.privs) :
                        p.column # STAR /\ <<statement.table, p.column>> \notin columns
            THEN [error |-> "undefined_column", roles |-> roles, acl |-> acl]
            ELSE [error |-> NoError, roles |-> roles, acl |-> acl \cup Privileges(statement)]
      [] statement.verb = "REVOKE" ->
            IF statement.table # NoTable /\ statement.table \notin pg_tables(columns)
            THEN [error |-> "undefined_table", roles |-> roles, acl |-> acl]
            ELSE IF statement.role \notin roles
            THEN [error |-> "undefined_object", roles |-> roles, acl |-> acl]
            ELSE [error |-> NoError, roles |-> roles,
                  acl |-> {a \in acl : ~(a.grantee = statement.role
                                         /\ (statement.table = NoTable
                                             \/ a.table = statement.table))}]

\* The state of one run: what the session sees (roles, acl), what is
\* committed (c_roles, c_acl), the module's existing_roles, what was printed,
\* what was sent to the backend, how often CREATE ROLE was sent for each
\* role, and the exception that ended the run (NoError if none).
RunState(roles, acl, memo, issued) ==
    [roles |-> roles, acl |-> acl, c_roles |-> roles, c_acl |-> acl,
     existing_roles |-> memo, printed |-> <<>>, executed |-> <<>>,
     issued |-> issued, error |-> NoError]

Count(f, r) == IF r \in DOMAIN f THEN f[r] ELSE 0

\* the statement reaches the backend
Sent(st, statement) ==
    [st EXCEPT !.executed = Append(@, statement),
               !.issued = IF statement.verb = "CREATE ROLE"
                          THEN (statement.role :> Count(@, statement.role) + 1) @@ @
                          ELSE @]

\* print(f"{status_msg} --> {statement}"), or print(statement) with status_msg ""
print(st, status_msg, statement) == [st EXCEPT !.printed = Append(@, [status_msg |-> status_msg, text |-> statement])]

\* "Skipped" if dry_run else "Executed"
status_msg_of(dry_run) == IF dry_run THEN "Skipped" ELSE "Executed"

\* session.execute of a statement wrapped in DO $$ BEGIN .. EXCEPTION WHEN
\* <caught> THEN RAISE NOTICE .. END $$ (caught = {} for a bare statement)
session_execute(st, statement, caught, columns) ==
    LET r == pg_execute(statement, st.roles, st.acl, columns)
        s1 == Sent(st, statement)
    IN  IF r.error = NoError THEN [s1 EXCEPT !.roles = r.roles, !.acl = r.acl]
        ELSE IF r.error \in caught THEN s1
        ELSE [s1 EXCEPT !.error = r.error]

\* engine.execute: a connection of its own, autocommit; the session (READ
\* COMMITTED) sees what it commits
engine_execute(st, statement, columns) ==
    LET r == pg_execute(statement, st.c_roles, st.c_acl, columns)
        s1 == Sent(st, statement)
    IN  IF r.error = NoError
        THEN [s1 EXCEPT !.c_roles = r.roles, !.c_acl = r.acl,
                        !.roles = st.roles \cup (r.roles \ st.c_roles),
                        !.acl = (st.acl \cup (r.acl \ st.c_acl)) \ (st.c_acl \ r.acl)]
        ELSE [s1 EXCEPT !.error = r.error]

session_commit(st) == [st EXCEPT !.c_roles = st.roles, !.c_acl = st.acl]
session_rollback(st) == [st EXCEPT !.roles = st.c_roles, !.acl = st.c_acl]

\* ---- schematools/permissions.py: the functions that reach the backend ----
create_role_statement(role) == Statement("CREATE ROLE", <<>>, NoTable, role)

\* without the test on existing_roles
_create_role_if_not_exists_every_time(st, role, dry_run) ==
    LET s1 == print(st, status_msg_of(dry_run), create_role_statement(role))
        s2 == IF dry_run THEN s1
              ELSE session_execute(s1, create_role_statement(role), {"duplicate_object"}, {})
    IN  IF s2.error # NoError THEN s2 ELSE [s2 EXCEPT !.existing_roles = @ \cup {role}]

_create_role_if_not_exists(st, role, dry_run) ==
    IF role \in st.existing_roles THEN st
    ELSE LET s1 == print(st, status_msg_of(dry_run), create_role_statement(role))
             s2 == IF dry_run THEN s1
                   ELSE session_execute(s1, create_role_statement(role),
                                        {"duplicate_object"}, {})
         IN  IF s2.error # NoError THEN s2 ELSE [s2 EXCEPT !.existing_roles = @ \cup {role}]

\* the statement printed and never executed
_execute_grant_printed_only(st, grant_statement, dry_run, columns) ==
    print(st, status_msg_of(dry_run), grant_statement)

_execute_grant(st, grant_statement, dry_run, columns) ==
    LET s1 == print(st, status_msg_of(dry_run), grant_statement)
    IN  IF dry_run THEN s1
        ELSE session_execute(s1, grant_statement, {"undefined_table", "undefined_column"},
                             columns)

\* the query without its WHERE clause
scope_roles_unfiltered(roles) == roles

\* SELECT rolname FROM pg_roles WHERE rolname LIKE 'scope\_%'
scope_roles(roles) == {r \in roles : startswith(r, <<"s", "c", "o", "p", "e", "_">>)}

\* the loop of _revoke_all_priviliges_from_scope_roles over the rows
RECURSIVE revoke_rows(_, _, _)
revoke_rows(st, rows, dry_run) ==
    IF rows = <<>> \/ st.error # NoError THEN st
    ELSE LET revoke_statement == revoke(NoTable, Head(rows))
             s1 == print(st, status_msg_of(dry_run), revoke_statement)
         IN  revoke_rows(IF dry_run THEN s1 ELSE session_execute(s1, revoke_statement, {}, {}),
                         Tail(rows), dry_run)

\* the rows taken from existing_roles instead of pg_roles
_revoke_all_priviliges_from_existing_roles(st, dry_run) ==
    revoke_rows(st, Rows(st.existing_roles), dry_run)

_revoke_all_priviliges_from_scope_roles(st, dry_run) ==
    revoke_rows(st, Rows(scope_roles(st.roles)), dry_run)

\* ---- the calls a function makes ----
Call(op, statement, dry_run) == [op |-> op, statement |-> statement, dry_run |-> dry_run]

\* one call, on the state of the run
do_call(st, c, columns) ==
    CASE c.op = "_create_role_if_not_exists" ->
            _create_role_if_not_exists(st, c.statement.role, c.dry_run)
      [] c.op = "_execute_grant" -> _execute_grant(st, c.statement, c.dry_run, columns)
      [] c.op = "_revoke_all_priviliges_from_scope_roles" ->
            _revoke_all_priviliges_from_scope_roles(st, c.dry_run)
      [] c.op = "engine.execute" -> engine_execute(print(st, "", c.statement), c.statement, columns)
      [] c.op = "revoke_permissions" -> engine_execute(print(st, "revoking ALL priviliges", c.statement), c.statement, columns)

\* the calls one after the other; an exception ends them
RECURSIVE do_calls(_, _, _)
do_calls(st, calls, columns) ==
    IF calls = <<>> \/ st.error # NoError THEN st
    ELSE do_calls(do_call(st, Head(calls), columns), Tail(calls), columns)

\* ---- schematools/permissions.py: the compilation ----
\* the truth value of an auth property
truthy(auth) == auth.t # "none" /\ auth.v # <<>> /\ (auth.t = "str" => auth.v[1] # <<>>)

\* {scope} of a string, set(..) of a list: duplicates dropped
RECURSIVE to_set(_)
to_set(scope_list) ==
    IF scope_list = <<>> THEN <<>>
    ELSE LET rest == to_set(Tail(scope_list))
         IN  IF Head(scope_list) \in RangeOf(rest) THEN rest ELSE <<Head(scope_list)>> \o rest

\* a list auth read as its first scope only
grantees_for_first_scope(role, scope, scope_set) ==
    IF role = AUTO THEN [i \in DOMAIN scope_set |-> scope_to_role(scope_set[i])]
    ELSE IF scope_set # <<>> /\ scope = scope_set[1] THEN <<role>>
    ELSE <<>>

\* lines 149-155, 177-183, 207-213
grantees_for(role, scope, scope_set) ==
    IF role = AUTO THEN [i \in DOMAIN scope_set |-> scope_to_role(scope_set[i])]
    ELSE IF scope \in RangeOf(scope_set) THEN <<role>>
    ELSE <<>>

\* lines 157-158, 185-186, 215-216
create_role_calls(grantee, dry_run, create_roles) ==
    IF create_roles
    THEN <<Call("_create_role_if_not_exists", create_role_statement(grantee), dry_run)>>
    ELSE <<>>

\* lines 159-174, 189-204
column_grant_call(table_name, field, grantee, dry_run) ==
    Call("_execute_grant",
         grant(<<Priv("SELECT", to_snake_case(field.name))>>, table_name, grantee), dry_run)

\* lines 133-174: a field with an auth of its own
field_calls(table_name, field, role, scope, dry_run, create_roles) ==
    IF ~truthy(field.auth) THEN <<>>
    ELSE LET grantees == grantees_for(role, scope, to_set(field.auth.v))
         IN  Concat([i \in DOMAIN grantees |->
                        create_role_calls(grantees[i], dry_run, create_roles)
                        \o <<column_grant_call(table_name, field, grantees[i], dry_run)>>])

\* the fields without an auth of their own in one grant with a column list
other_fields_calls_column_list(table_name, fields, table_scope_set, role, scope, dry_run, create_roles) ==
    LET grantees == grantees_for(role, scope, table_scope_set)
        others == SelectSeq(fields, LAMBDA field : ~truthy(field.auth))
    IN  Concat([i \in DOMAIN grantees |->
                   create_role_calls(grantees[i], dry_run, create_roles)
                   \o <<Call("_execute_grant",
                             grant([j \in DOMAIN others |->
                                        Priv("SELECT", to_snake_case(others[j].name))],
                                   table_name, grantees[i]),
                             dry_run)>>])

\* lines 175-204: the fields without an auth of their own, one grant each
other_fields_calls(table_name, fields, table_scope_set, role, scope, dry_run, create_roles) ==
    LET grantees == grantees_for(role, scope, table_scope_set)
    IN  Concat([i \in DOMAIN grantees |->
                   create_role_calls(grantees[i], dry_run, create_roles)
                   \o Concat([j \in DOMAIN fields |->
                                 IF truthy(fields[j].auth) THEN <<>>
                                 ELSE <<column_grant_call(table_name, fields[j], grantees[i],
                                                          dry_run)>>])])

\* lines 205-231: the whole table in one grant
\* the table granted with all its privileges
table_calls_all_privileges(table_name, table_scope_set, role, scope, dry_run, create_roles) ==
    LET grantees == grantees_for(role, scope, table_scope_set)
    IN  Concat([i \in DOMAIN grantees |->
                   create_role_calls(grantees[i], dry_run, create_roles)
                   \o <<Call("_execute_grant",
                             grant(<<Priv("ALL", STAR)>>, table_name, grantees[i]),
                             dry_run)>>])

table_calls(table_name, table_scope_set, role, scope, dry_run, create_roles) ==
    LET grantees == grantees_for(role, scope, table_scope_set)
    IN  Concat([i \in DOMAIN grantees |->
                   create_role_calls(grantees[i], dry_run, create_roles)
                   \o <<Call("_execute_grant",
                             grant(<<Priv("SELECT", STAR)>>, table_name, grantees[i]),
                             dry_run)>>])

dataset_scope_of(ams_schema) ==
    IF truthy(ams_schema.auth) THEN ams_schema.auth ELSE [t |-> "list", v |-> <<PUBLIC_SCOPE>>]

\* the auth of the table ignored
table_scope_of_dataset(ams_schema, table) == dataset_scope_of(ams_schema)

table_scope_of(ams_schema, table) ==
    IF truthy(table.auth) THEN table.auth ELSE dataset_scope_of(ams_schema)

table_name_of(ams_schema, table) == ams_schema.id \o <<"_">> \o to_snake_case(table.id)

fields_of(table) == SelectSeq(table.fields, LAMBDA field : field.name # Name.schema)

\* the flag never set: every table granted as a whole
contains_field_grants_never(table) == FALSE

contains_field_grants(table) == \E field \in RangeOf(fields_of(table)) : truthy(field.auth)

\* lines 111-231: one table
acl_calls_of_table(ams_schema, table, role, scope, dry_run, create_roles) ==
    LET table_name == table_name_of(ams_schema, table)
        table_scope_set == to_set(table_scope_of(ams_schema, table).v)
        fields == fields_of(table)
    IN  Concat([j \in DOMAIN fields |->
                   field_calls(table_name, fields[j], role, scope, dry_run, create_roles)])
        \o (IF contains_field_grants(table)
            THEN other_fields_calls(table_name, fields, table_scope_set, role, scope, dry_run,
                                    create_roles)
            ELSE table_calls(table_name, table_scope_set, role, scope, dry_run, create_roles))

create_acl_from_schema(ams_schema, role, scope, dry_run, create_roles) ==
    (IF create_roles /\ role # AUTO /\ role # <<>>
     THEN <<Call("_create_role_if_not_exists", create_role_statement(role), FALSE)>>
     ELSE <<>>)
    \o Concat([i \in DOMAIN get_tables(ams_schema) |->
                  acl_calls_of_table(ams_schema, get_tables(ams_schema)[i], role, scope,
                                     dry_run, create_roles)])

\* the revoke inside the loop over the datasets
create_acl_from_schemas_revoke_each(schemas, role, scopes, dry_run, create_roles) ==
    Concat([i \in DOMAIN schemas |->
                  <<Call("_revoke_all_priviliges_from_scope_roles", revoke(NoTable, <<>>), dry_run)>>
                  \o create_acl_from_schema(schemas[i], role, scopes, dry_run, create_roles)])

create_acl_from_schemas(schemas, role, scopes, dry_run, create_roles) ==
    <<Call("_revoke_all_priviliges_from_scope_roles", revoke(NoTable, <<>>), dry_run)>>
    \o Concat([i \in DOMAIN schemas |->
                  create_acl_from_schema(schemas[i], role, scopes, dry_run, create_roles)])

\* query.get_all_table_acls(engine, schema="public"): the tables of the schema
get_all_table_acls(columns) == Rows(pg_tables(columns))

create_acl_from_profiles(acl_list, profile_list, role, scope) ==
    Concat([p \in DOMAIN profile_list |->
        IF scope \notin RangeOf(profile_list[p].scopes) THEN <<>>
        ELSE Concat([d \in DOMAIN profile_list[p].schema_data.datasets |->
                Concat([i \in DOMAIN acl_list |->
                    IF startswith(acl_list[i], profile_list[p].schema_data.datasets[d] \o <<"_">>)
                    THEN <<Call("engine.execute",
                                grant(<<Priv("SELECT", STAR)>>, acl_list[i], role), FALSE)>>
                    ELSE <<>>])])])

\* lines 52-58: the statements of the run, up to session.commit()
apply_statements(st, ams_schema, profiles, role, scope, dry_run, create_roles, columns) ==
    LET s1 == IF ams_schema # <<>>
              THEN do_calls(st, create_acl_from_schemas(ams_schema, role, scope, dry_run,
                                                        create_roles), columns)
              ELSE st
    IN  IF profiles # <<>> /\ s1.error = NoError
        THEN do_calls(s1, create_acl_from_profiles(get_all_table_acls(columns), profiles,
                                                   role, scope), columns)
        ELSE s1

\* the run: the state it ends in, committed or rolled back
apply_schema_and_profile_permissions(st, ams_schema, profiles, role, scope, dry_run, create_roles, columns) ==
    LET s2 == apply_statements(st, ams_schema, profiles, role, scope, dry_run, create_roles,
                               columns)
    IN  IF s2.error = NoError THEN session_commit(s2) ELSE session_rollback(s2)

\* revoke_permissions: one REVOKE for every table whose ACL names the role.
\* The tables in vanished are dropped by another connection after
\* get_all_table_acls has answered.
revoke_permissions(st, role, columns, vanished) ==
    LET listed == SelectSeq(get_all_table_acls(columns),
                            LAMBDA t : \E a \in st.c_acl : a.table = t /\ a.grantee = role /\ a.column = STAR)
        dropped == [st EXCEPT !.acl = {a \in @ : a.table \notin vanished},
                              !.c_acl = {a \in @ : a.table \notin vanished}]
    IN  do_calls(dropped,
                 [i \in DOMAIN listed |-> Call("revoke_permissions", revoke(listed[i], role), FALSE)],
                 {c \in columns : c[1] \notin vanished})

\* ---- the inputs ----
SchemaSets ==
    {<<gebieden_schema_auth>>, <<gebieden_schema_auth_list>>, <<afval_schema>>,
     <<afval_schema, gebieden_schema_auth>>}

\* --role / --scope of the command line, or --auto
RoleScopes ==
    {<<AUTO, Scope.ALL>>, <<Role.level_a, Scope.LEVEL_A>>, <<Role.level_b, Scope.LEVEL_B>>,
     <<Role.level_c, Scope.LEVEL_C>>, <<Role.level_b2, Scope.LEVEL_B2>>}

ApplyArgs(ams_schema, profiles, rs, dry_run, create_roles) ==
    [ams_schema |-> ams_schema, profiles |-> profiles, role |-> rs[1], scope |-> rs[2],
     dry_run |-> dry_run, create_roles |-> create_roles]

\* the calls without profiles (the command line passes None) and the calls
\* with the profile of the tests, with and without a schema
ApplyCalls ==
    {ApplyArgs(ams_schema, <<>>, rs, dry_run, create_roles) :
        ams_schema \in SchemaSets, rs \in RoleScopes,
        dry_run \in BOOLEAN, create_roles \in BOOLEAN}
    \cup
    {ApplyArgs(ams_schema, <<gebieden_test_profile>>, rs, dry_run, create_roles) :
        ams_schema \in {<<>>, <<gebieden_schema_auth>>},
        rs \in {<<AUTO, Scope.ALL>>, <<Role.level_b, Scope.LEVEL_B>>,
                <<Role.fp_md, Scope.FP_MD>>, <<AUTO, Scope.FP_MD>>},
        dry_run \in BOOLEAN, create_roles \in BOOLEAN}

\* the roles the tests create before they apply permissions
TestRoles == {Role.level_a, Role.level_b, Role.level_c, Role.level_b2, Role.fp_md}

\* the columns NDJSONImporter.generate_db_objects makes for a dataset
materialize(ams_schema) ==
    UNION {{<<table_name_of(ams_schema, table), to_snake_case(field.name)>> :
                field \in RangeOf(fields_of(table))} :
           table \in RangeOf(get_tables(ams_schema))}

\* the tables the tests make: bouwblokken and buurten of gebieden (not
\* wijken), containers and clusters of afvalwegingen
TestColumns ==
    {c \in materialize(gebieden_schema_auth) \cup materialize(afval_schema) :
        c[1] # Name.gebieden_wijken}

\* the same database before the column eind_geldigheid is made
PartlyMaterialized == TestColumns \ {<<Name.gebieden_bouwblokken, Name.eind_geldigheid>>}

NoRun ==
    [op |-> "none", args |-> <<>>, before |-> RunState({}, {}, {}, <<>>),
     out |-> RunState({}, {}, {}, <<>>), repeat |-> 0]

\* ---- the state machine ----
InitPerm ==
    /\ pg_roles = TestRoles
    /\ pg_acl = {}
    /\ pg_columns \in {TestColumns, PartlyMaterialized}
    /\ existing_roles = {}
    /\ create_role_issued = <<>>
    /\ apply_pc = "idle"
    /\ run = NoRun
    /\ runs = 0
    /\ EventsIdle

\* one run of apply_schema_and_profile_permissions with the given arguments
Apply(args, repeat) ==
    LET before == RunState(pg_roles, pg_acl, existing_roles, create_role_issued)
    IN  \E out \in {apply_schema_and_profile_permissions(
                        before, args.ams_schema, args.profiles, args.role, args.scope,
                        args.dry_run, args.create_roles, pg_columns)} :
            /\ pg_roles' = out.c_roles
            /\ pg_acl' = out.c_acl
            /\ existing_roles' = out.existing_roles
            /\ create_role_issued' = out.issued
            /\ run' = [op |-> "apply", args |-> args, before |-> before, out |-> out,
                       repeat |-> repeat]
            /\ apply_pc' = "returned"
            /\ UNCHANGED pg_columns

\* permissions_apply: one run of apply_schema_and_profile_permissions
ApplyPermissions ==
    /\ apply_pc = "idle"
    /\ runs < MaxRuns
    /\ runs' = runs + 1
    /\ \E args \in ApplyCalls : Apply(args, 0)
    /\ UNCHANGED event_vars

\* permissions_apply when the connection of the session is lost at
\* session.commit(): commit raises, the except clause rolls back and re-raises
ApplyCommitFails ==
    /\ apply_pc = "idle"
    /\ runs < MaxRuns
    /\ runs' = runs + 1
    /\ \E args \in {a \in ApplyCalls : a.profiles # <<>> /\ ~a.dry_run} :
        LET before == RunState(pg_roles, pg_acl, existing_roles, create_role_issued)
        IN  \E s2 \in {apply_statements(before, args.ams_schema, args.profiles, args.role,
                                        args.scope, args.dry_run, args.create_roles,
                                        pg_columns)} :
            \E out \in {session_rollback(IF s2.error = NoError
                                         THEN [s2 EXCEPT !.error = "OperationalError"]
                                         ELSE s2)} :
                /\ pg_roles' = out.c_roles
                /\ pg_acl' = out.c_acl
                /\ existing_roles' = out.existing_roles
                /\ create_role_issued' = out.issued
                /\ run' = [op |-> "apply_commit_fails", args |-> args, before |-> before,
                           out |-> out, repeat |-> 0]
    /\ apply_pc' = "returned"
    /\ UNCHANGED <<pg_columns, event_vars>>

\* the same command run once more
ReApply ==
    /\ apply_pc = "returned"
    /\ run.op = "apply"
    /\ run.repeat < MaxRepeats
    /\ Apply(run.args, run.repeat + 1)
    /\ UNCHANGED <<runs, event_vars>>

\* the roles permissions_revoke is called for, and the tables an import
\* drops while it runs
RevokeCalls ==
    {[role |-> role, vanished |-> vanished] :
        role \in {Role.level_a, Role.fp_md, scope_to_role(Scope.LEVEL_A)},
        vanished \in { {}, {Name.gebieden_buurten} } }

\* permissions_revoke: one run of revoke_permissions
RevokePermissions ==
    /\ apply_pc = "idle"
    /\ runs < MaxRuns
    /\ runs' = runs + 1
    /\ \E args \in RevokeCalls :
        LET before == RunState(pg_roles, pg_acl, existing_roles, create_role_issued)
        IN  \E out \in {revoke_permissions(before, args.role, pg_columns, args.vanished)} :
                /\ pg_acl' = out.c_acl
                /\ pg_columns' = {c \in pg_columns : c[1] \notin args.vanished}
                /\ run' = [op |-> "revoke_permissions", args |-> args, before |-> before,
                           out |-> out, repeat |-> 0]
    /\ apply_pc' = "returned"
    /\ UNCHANGED <<pg_roles, existing_roles, create_role_issued, event_vars>>

\* the caller turns to the next command
NextRun ==
    /\ apply_pc = "returned"
    /\ apply_pc' = "idle"
    /\ run' = NoRun
    /\ UNCHANGED <<pg_roles, pg_acl, pg_columns, existing_roles, create_role_issued, runs, event_vars>>

NextPerm == ApplyPermissions \/ ReApply \/ ApplyCommitFails \/ RevokePermissions \/ NextRun

SpecPerm == InitPerm /\ [][NextPerm]_vars

\* ---- write permissions (PermissionCompiler, step 7) ----
\* the role of the writers of a dataset
write_role(dataset_id) == <<"w", "r", "i", "t", "e", "_">> \o dataset_id

\* one role write_<dataset_id> for each dataset, with INSERT, UPDATE, DELETE
\* and TRUNCATE on every table of the dataset
set_write_permissions(ams_schema, dry_run) ==
    Concat([i \in DOMAIN ams_schema |->
        <<Call("_create_role_if_not_exists",
               create_role_statement(write_role(ams_schema[i].id)), dry_run)>>
        \o [t \in DOMAIN get_tables(ams_schema[i]) |->
               Call("_execute_grant",
                    grant(<<Priv("INSERT", STAR), Priv("UPDATE", STAR), Priv("DELETE", STAR),
                            Priv("TRUNCATE", STAR)>>,
                          table_name_of(ams_schema[i], get_tables(ams_schema[i])[t]),
                          write_role(ams_schema[i].id)),
                    dry_run)]])

\* permissions_apply with write permissions enabled: the read grants of the
\* schemas if they are asked for, then the write roles, in one session
ApplyWritePermissions ==
    /\ apply_pc = "idle"
    /\ runs < MaxRuns
    /\ runs' = runs + 1
    /\ \E ams_schema \in SchemaSets, rs \in {<<AUTO, Scope.ALL>>, <<Role.level_b, Scope.LEVEL_B>>},
          set_read_permissions \in BOOLEAN, create_roles \in BOOLEAN :
        LET before == RunState(pg_roles, pg_acl, existing_roles, create_role_issued)
            calls == (IF set_read_permissions
                      THEN create_acl_from_schemas(ams_schema, rs[1], rs[2], FALSE, create_roles)
                      ELSE <<>>)
                     \o set_write_permissions(ams_schema, FALSE)
        IN  \E s1 \in {do_calls(before, calls, pg_columns)} :
            \E out \in {IF s1.error = NoError THEN session_commit(s1) ELSE session_rollback(s1)} :
                /\ pg_roles' = out.c_roles
                /\ pg_acl' = out.c_acl
                /\ existing_roles' = out.existing_roles
                /\ create_role_issued' = out.issued
                /\ run' = [op |-> "apply_write",
                           args |-> [ams_schema |-> ams_schema, role |-> rs[1], scope |-> rs[2],
                                     set_read_permissions |-> set_read_permissions,
                                     create_roles |-> create_roles],
                           before |-> before, out |-> out, repeat |-> 0]
    /\ apply_pc' = "returned"
    /\ UNCHANGED <<pg_columns, event_vars>>

SpecWrite == InitPerm /\ [][ApplyWritePermissions \/ NextRun]_vars

(***************************************************************************)
(* The claims about permissions.  Each is stated about the run that has   *)
(* just returned: run.args are its arguments, run.before the backend and  *)
(* the module state it started from, run.out what it printed, sent and    *)
(* raised; pg_roles and pg_acl are the backend it left.                    *)
(***************************************************************************)
RunReturned == apply_pc = "returned" /\ run.op = "apply"

\* the run returned without an exception and its session was committed
Committed == RunReturned /\ run.out.error = NoError

Executing == RunReturned /\ ~run.args.dry_run

RunSchemas == RangeOf(run.args.ams_schema)

SelectOn(table, column, role) ==
    [grantee |-> role, table |-> table, column |-> column, priv |-> "SELECT"]

\* role may read the column: by a privilege on the table or on the column
has_select(acl, role, table, column) ==
    \/ SelectOn(table, STAR, role) \in acl
    \/ SelectOn(table, column, role) \in acl

HoldsNothingOn(acl, role, table) == ~\E a \in acl : a.grantee = role /\ a.table = table

ScopeSet(auth) == RangeOf(auth.v)

OverriddenFields(table) == {f \in RangeOf(fields_of(table)) : f.auth.t # "none"}
PlainFields(table) == {f \in RangeOf(fields_of(table)) : f.auth.t = "none"}

ColumnExists(table_name, field) == <<table_name, to_snake_case(field.name)>> \in pg_columns

\* the scopes of S that the run was asked to serve, and the role that holds
\* scope s in this run
ServedScopes(S) == IF run.args.role = AUTO THEN S ELSE S \cap {run.args.scope}
HolderOf(s) == IF run.args.role = AUTO THEN scope_to_role(s) ELSE run.args.role

\* the role held nothing on the table when the run started (scope roles are
\* reset by every run)
StartsClean(role, table_name) ==
    \/ run.args.role = AUTO
    \/ HoldsNothingOn(run.before.c_acl, role, table_name)

\* C11: field over table.  After a committed run, for a table with scope-set
\* S_t and a field f with its own auth S_f: a role holding only a scope of
\* S_t (and not of S_f) can SELECT every column without its own auth and not
\* the column of f; a role holding only a scope of S_f can SELECT the column
\* of f and no column without its own auth.
C11_FieldOverridesTable ==
    (Committed /\ Executing) =>
        \A ds \in RunSchemas : \A t \in RangeOf(get_tables(ds)) : \A f \in OverriddenFields(t) :
            LET name == table_name_of(ds, t)
                S_t == ScopeSet(table_scope_of(ds, t))
                S_f == ScopeSet(f.auth)
            IN  \A s \in ServedScopes(S_t \cup S_f) :
                    LET r == HolderOf(s)
                    IN  StartsClean(r, name) =>
                          /\ (s \in S_t \ S_f) =>
                                /\ \A g \in PlainFields(t) :
                                      ColumnExists(name, g) =>
                                          has_select(pg_acl, r, name, to_snake_case(g.name))
                                /\ ~has_select(pg_acl, r, name, to_snake_case(f.name))
                          /\ (s \in S_f \ S_t) =>
                                /\ ColumnExists(name, f) =>
                                      has_select(pg_acl, r, name, to_snake_case(f.name))
                                /\ \A g \in PlainFields(t) :
                                      ~has_select(pg_acl, r, name, to_snake_case(g.name))

\* a committed run for the role level_b with scope LEVEL/B on the
\* table bouwblokken whose field beginGeldigheid has its own auth
C11_Witness ==
    /\ Committed /\ Executing
    /\ gebieden_schema_auth \in RunSchemas
    /\ run.args.role = Role.level_b
    /\ has_select(pg_acl, Role.level_b, Name.gebieden_bouwblokken, Name.id)
    /\ ~has_select(pg_acl, Role.level_b, Name.gebieden_bouwblokken, Name.begin_geldigheid)

\* the scope-set a table is read with, as the claim states it
DeclaredScopes(ds, t) ==
    IF t.auth.t # "none" THEN ScopeSet(t.auth)
    ELSE IF ds.auth.t # "none" THEN ScopeSet(ds.auth)
    ELSE {PUBLIC_SCOPE}

\* some profile of the run lists the requested scope (its grants are added to
\* those of the schema)
ProfileListsScope == \E p \in RangeOf(run.args.profiles) : run.args.scope \in RangeOf(p.scopes)

\* C12: the scope-set of a table is its own auth, else the auth of the
\* dataset, else OPENBAAR.  After a committed run in which no profile adds
\* grants, for every existing column without its own auth: under AUTO the
\* scope roles that can SELECT it are exactly the roles of that scope-set (a
\* dataset without auth: scope_openbaar only); a fixed role that started clean
\* can SELECT it if and only if the requested scope is in that scope-set.
C12_TableScopeDefaults ==
    (Committed /\ Executing /\ ~ProfileListsScope) =>
        \A ds \in RunSchemas : \A t \in RangeOf(get_tables(ds)) : \A g \in PlainFields(t) :
            LET name == table_name_of(ds, t)
                column == to_snake_case(g.name)
            IN  ColumnExists(name, g) =>
                    IF run.args.role = AUTO
                    THEN {r \in scope_roles(pg_roles) : has_select(pg_acl, r, name, column)}
                            = {scope_to_role(s) : s \in DeclaredScopes(ds, t)}
                    ELSE StartsClean(run.args.role, name) =>
                            (has_select(pg_acl, run.args.role, name, column)
                                <=> run.args.scope \in DeclaredScopes(ds, t))

\* an AUTO run on afvalwegingen (no dataset auth) and gebieden (auth LEVEL/A):
\* containers is read by scope_openbaar, buurten by scope_level_a, and
\* neither by the role of the other
C12_Witness ==
    /\ Committed /\ Executing
    /\ run.args.role = AUTO
    /\ {afval_schema, gebieden_schema_auth} \subseteq RunSchemas
    /\ has_select(pg_acl, scope_to_role(PUBLIC_SCOPE), Name.afvalwegingen_containers, Name.id)
    /\ has_select(pg_acl, scope_to_role(Scope.LEVEL_A), Name.gebieden_buurten, Name.id)
    /\ ~has_select(pg_acl, scope_to_role(Scope.LEVEL_A), Name.gebieden_bouwblokken, Name.id)
    /\ ~has_select(pg_acl, scope_to_role(PUBLIC_SCOPE), Name.afvalwegingen_clusters, Name.id)

\* the GRANT statements the run printed for the schema (with a status; the
\* grants of the profiles are printed bare)
SchemaGrants ==
    {run.out.printed[i].text : i \in {j \in DOMAIN run.out.printed :
        run.out.printed[j].status_msg # "" /\ run.out.printed[j].text.verb = "GRANT"}}

\* a SELECT grant of the schema on the column, or on its whole table, to role
GrantIssued(role, table_name, column) ==
    \E g \in SchemaGrants :
        /\ g.role = role
        /\ g.table = table_name
        /\ \E p \in RangeOf(g.privs) : p.priv = "SELECT" /\ p.column \in {column, STAR}

\* the scope-set that applies to a field: its own auth, else that of its table
ApplicableScopes(ds, t, f) == IF f.auth.t # "none" THEN ScopeSet(f.auth) ELSE DeclaredScopes(ds, t)

\* C13: with a fixed role, a run that was not ended by an exception issues a
\* SELECT grant of the schema for a column (or its whole table) to that role
\* if and only if the requested scope is one of the scopes of the applicable
\* scope-set, each scope of a list counting on its own; it issues no grant of
\* the schema to any other role.
C13_FixedRoleGrantedIffScopeListed ==
    (Committed /\ run.args.role # AUTO) =>
        /\ \A g \in SchemaGrants : g.role = run.args.role
        /\ \A ds \in RunSchemas : \A t \in RangeOf(get_tables(ds)) :
              \A f \in RangeOf(fields_of(t)) :
                  GrantIssued(run.args.role, table_name_of(ds, t), to_snake_case(f.name))
                      <=> run.args.scope \in ApplicableScopes(ds, t, f)

\* level_b2 applied with LEVEL/B2, the second scope of the list auth of
\* bouwblokken: granted the column id, not the column begin_geldigheid
C13_Witness ==
    /\ Committed
    /\ run.args.role = Role.level_b2
    /\ gebieden_schema_auth_list \in RunSchemas
    /\ GrantIssued(Role.level_b2, Name.gebieden_bouwblokken, Name.id)
    /\ ~GrantIssued(Role.level_b2, Name.gebieden_bouwblokken, Name.begin_geldigheid)

\* the role name the claim gives for a scope: "scope_", then the scope with
\* every letter lower-cased and every "/" turned into "_"
RoleNameOf(scope) ==
    <<"s", "c", "o", "p", "e", "_">> \o [i \in 1..Len(scope) |-> IF scope[i] = "/" THEN "_" ELSE lower_char(scope[i])]

\* the roles the schema grants of the run give the column (or its table) to
GranteesOf(table_name, column) ==
    {g.role : g \in {h \in SchemaGrants :
        /\ h.table = table_name
        /\ \E p \in RangeOf(h.privs) : p.priv = "SELECT" /\ p.column \in {column, STAR}}}

\* C14: with role AUTO, a run that was not ended by an exception issues the
\* schema grant for a field (or its table) to the roles named after the
\* scopes of the applicable scope-set, and to no other role; when it
\* executes, each of these roles can SELECT the column if the column exists.
C14_AutoGrantsToScopeRoles ==
    (Committed /\ run.args.role = AUTO) =>
        \A ds \in RunSchemas : \A t \in RangeOf(get_tables(ds)) : \A f \in RangeOf(fields_of(t)) :
            LET name == table_name_of(ds, t)
                column == to_snake_case(f.name)
                roles == {RoleNameOf(s) : s \in ApplicableScopes(ds, t, f)}
            IN  /\ GranteesOf(name, column) = roles
                /\ (Executing /\ ColumnExists(name, f)) =>
                        \A r \in roles : has_select(pg_acl, r, name, column)

\* an AUTO run on afvalwegingen: the table clusters, auth BAG/R, is granted
\* to scope_bag_r
C14_Witness ==
    /\ Committed /\ Executing
    /\ run.args.role = AUTO
    /\ afval_schema \in RunSchemas
    /\ GranteesOf(Name.afvalwegingen_clusters, Name.id) = { <<"s", "c", "o", "p", "e", "_", "b", "a", "g", "_", "r">> }
    /\ has_select(pg_acl, <<"s", "c", "o", "p", "e", "_", "b", "a", "g", "_", "r">>, Name.afvalwegingen_clusters, Name.id)

\* the tables of the datasets the run was given
RunTables == UNION {{table_name_of(ds, t) : t \in RangeOf(get_tables(ds))} : ds \in RunSchemas}

\* C15: a run for one dataset leaves the privileges on the tables of the
\* other datasets as they were: every privilege a scope role held on a table
\* of a dataset the run was not given, it still holds after the run.
C15_OtherDatasetsKeepPrivileges ==
    (Committed /\ Executing /\ run.args.ams_schema # <<>>) =>
        \A a \in run.before.c_acl :
            (a.grantee \in scope_roles(run.before.c_roles) /\ a.table \notin RunTables)
                => a \in pg_acl

\* the statements a list of printed lines reports
Reported(printed) == [i \in DOMAIN printed |-> printed[i].text]

\* what the same call would send to the backend from the same state without
\* dry_run
ExecutedWithoutDryRun ==
    apply_schema_and_profile_permissions(
        run.before, run.args.ams_schema, run.args.profiles, run.args.role, run.args.scope,
        FALSE, run.args.create_roles, pg_columns).executed

\* C16: a dry run sends no statement to the backend and leaves its roles and
\* privileges as they were, and the statements it prints are those the same
\* call without dry_run sends, in the same order.
C16_DryRunExecutesNothing ==
    (RunReturned /\ run.args.dry_run) =>
        /\ run.out.executed = <<>>
        /\ pg_roles = run.before.c_roles
        /\ pg_acl = run.before.c_acl
        /\ Reported(run.out.printed) = ExecutedWithoutDryRun

\* the roles the run may ask _create_role_if_not_exists for
RolesAsked ==
    IF ~run.args.create_roles THEN {}
    ELSE IF run.args.role = AUTO THEN {g.role : g \in SchemaGrants}
    ELSE {run.args.role}

\* C19: CREATE ROLE for a role the backend already has does not make the run
\* raise, and over the life of the process CREATE ROLE is sent at most once
\* for each role name.
C19_CreateRoleOncePerName ==
    /\ \A r \in DOMAIN create_role_issued : create_role_issued[r] <= 1
    /\ RunReturned => run.out.error # "duplicate_object"

\* a run asks again for a role that exists in the backend and whose CREATE
\* ROLE an earlier run has sent
C19_Witness ==
    /\ Committed /\ Executing
    /\ \E r \in RolesAsked :
        /\ r \in run.before.c_roles
        /\ r \in run.before.existing_roles
        /\ Count(run.before.issued, r) = 1
        /\ Count(create_role_issued, r) = 1

\* C18: the same call made again (a second time, a third time) leaves every
\* privilege of every role on every table and column as the run before it
\* left it.
C18_ReapplyLeavesPrivileges ==
    (RunReturned /\ run.repeat > 0) => pg_acl = run.before.c_acl

\* a second run of the same executing call ends without an exception on a
\* backend where the first has left privileges
C18_Witness ==
    /\ Committed /\ Executing
    /\ run.repeat > 0
    /\ SchemaGrants # {}
    /\ \E a \in pg_acl : a.grantee \in scope_roles(pg_roles)

\* a run of revoke_permissions has returned, or was ended by an exception
RevokeReturned == apply_pc = "returned" /\ run.op = "revoke_permissions"

\* the tables whose ACL named the role when revoke_permissions listed them
ListedFor(role) ==
    {a.table : a \in {b \in run.before.c_acl : b.grantee = role /\ b.column = STAR}}

\* C20: no run is ended by a statement whose table or column does not exist:
\* the statement is skipped and those after it are still sent, for the
\* grants of an apply run and for the revokes of revoke_permissions alike.
C20_EveryStatementGuarded ==
    /\ RunReturned => run.out.error \notin {"undefined_table", "undefined_column"}
    /\ RevokeReturned =>
        /\ run.out.error = NoError
        /\ Len(run.out.executed) = Cardinality(ListedFor(run.args.role))

\* a run with write permissions enabled has returned
WriteReturned == apply_pc = "returned" /\ run.op = "apply_write"

\* the privileges of a write role
WritePrivileges == {"INSERT", "UPDATE", "DELETE", "TRUNCATE"}

\* the tables of a dataset that exist in the backend
TablesOf(ds) ==
    {table_name_of(ds, t) : t \in RangeOf(get_tables(ds))} \cap pg_tables(pg_columns)

ListingProfiles == {p \in RangeOf(run.args.profiles) : run.args.scope \in RangeOf(p.scopes)}

\* the tables of the backend that belong to a dataset of the profile
ProfileTables(p) ==
    {t \in pg_tables(pg_columns) :
        \E d \in RangeOf(p.schema_data.datasets) : startswith(t, d \o <<"_">>)}

\* the grants the run printed for its profiles
ProfileGrants == {l.text : l \in {m \in RangeOf(run.out.printed) : m.status_msg = ""}}

\* C21: with a profile that lists the requested scope, a run that executes
\* ends without an exception and leaves the resolved role (the fixed role,
\* under AUTO the role of the requested scope) with SELECT on every table of
\* the profile's datasets; a run whose profiles do not list the scope
\* issues no profile grant.
C21_ProfileGrantsBlanketSelect ==
    /\ (Executing /\ ListingProfiles # {}) =>
          /\ run.out.error = NoError
          /\ \A p \in ListingProfiles : \A t \in ProfileTables(p) :
                SelectOn(t, STAR, HolderOf(run.args.scope)) \in pg_acl
    /\ (RunReturned /\ ListingProfiles = {}) => ProfileGrants = {}

\* the name matches scope_*
IsScopeRole(role) == startswith(role, <<"s", "c", "o", "p", "e", "_">>)

\* the REVOKE statements the run sent
RevokesSent == {s \in RangeOf(run.out.executed) : s.verb = "REVOKE"}

\* C22: an apply run sends REVOKE for roles named scope_* only, and every
\* privilege another role held before the run it holds after it, whichever
\* role and scope the run was made for.
C22_RevokeTouchesScopeRolesOnly ==
    RunReturned =>
        /\ \A s \in RevokesSent : IsScopeRole(s.role)
        /\ \A a \in run.before.c_acl : ~IsScopeRole(a.grantee) => a \in pg_acl

\* a run for another role revoked from scope roles and left level_b, granted
\* by an earlier run, what it held
C22_Witness ==
    /\ Committed /\ Executing
    /\ run.args.role # Role.level_b
    /\ RevokesSent # {}
    /\ SelectOn(Name.gebieden_bouwblokken, Name.id, Role.level_b) \in run.before.c_acl
    /\ SelectOn(Name.gebieden_bouwblokken, Name.id, Role.level_b) \in pg_acl

\* C23: apply_schema_and_profile_permissions has no revoke option, so no run
\* requests a revoke: a run sends no REVOKE, and every privilege a role held
\* before the run it holds after it.
C23_NoRevokeUnlessRequested ==
    RunReturned =>
        /\ RevokesSent = {}
        /\ run.before.c_acl \subseteq pg_acl

\* C24: whatever apply runs were made, no role holds a privilege other than
\* SELECT, and no run sent a GRANT of anything but SELECT.
C24_ReadRolesHoldSelectOnly ==
    /\ \A a \in pg_acl : a.priv = "SELECT"
    /\ RunReturned =>
          \A s \in RangeOf(run.out.executed) :
              s.verb = "GRANT" => \A p \in RangeOf(s.privs) : p.priv = "SELECT"

\* after two runs a scope role and a fixed role hold privileges on tables
C24_Witness ==
    /\ Committed /\ Executing
    /\ runs = 2
    /\ \E a \in pg_acl : IsScopeRole(a.grantee) /\ a.column = STAR
    /\ \E a \in pg_acl : ~IsScopeRole(a.grantee) /\ a.column = STAR
    /\ \E a \in pg_acl : a.column # STAR

\* the statements the run issued (executed, or reported by a dry run), in
\* order
Issued == Reported(run.out.printed)

\* C25: in the statements one apply run issues, every REVOKE comes before
\* the first GRANT, however many datasets the run was given.
C25_RevokesBeforeGrants ==
    RunReturned =>
        \A i, j \in DOMAIN Issued :
            (Issued[i].verb = "REVOKE" /\ Issued[j].verb = "GRANT") => i < j

\* a run for two datasets revoked from scope roles and granted on tables of
\* both
C25_Witness ==
    /\ Committed /\ Executing
    /\ Len(run.args.ams_schema) = 2
    /\ RevokesSent # {}
    /\ \E s \in RangeOf(run.out.executed) :
          s.verb = "GRANT" /\ s.table = Name.afvalwegingen_clusters
    /\ \E s \in RangeOf(run.out.executed) :
          s.verb = "GRANT" /\ s.table = Name.gebieden_buurten

\* the schema grants the run issued to role on the table, as places in what
\* it printed
GrantsTo(role, table_name) ==
    {i \in DOMAIN run.out.printed :
        /\ run.out.printed[i].status_msg # ""
        /\ Issued[i].verb = "GRANT"
        /\ Issued[i].role = role
        /\ Issued[i].table = table_name}

\* the columns a grant names (STAR for the whole table)
ColumnsOf(statement) == {p.column : p \in RangeOf(statement.privs)}

PlainColumns(table) == {to_snake_case(f.name) : f \in PlainFields(table)}

\* the grantees resolved from the scope-set of the table
TableGrantees(ds, t) == {HolderOf(s) : s \in ServedScopes(ScopeSet(table_scope_of(ds, t)))}

\* a table without a field auth: one grant of the whole table to each
\* grantee, and no grant of a column
WholeTableGrantedOnce(ds, t) ==
    \A r \in TableGrantees(ds, t) :
        /\ Cardinality(GrantsTo(r, table_name_of(ds, t))) = 1
        /\ \A i \in GrantsTo(r, table_name_of(ds, t)) : ColumnsOf(Issued[i]) = {STAR}

\* C26 as stated: in a run not ended by an exception, for a table with a
\* field auth each grantee of the table's scope-set gets exactly one grant,
\* whose columns are all the fields without an auth; for a table without
\* one, exactly one grant of the whole table and none of a column.
C26_OneColumnListGrant ==
    Committed =>
        \A ds \in RunSchemas : \A t \in RangeOf(get_tables(ds)) :
            IF OverriddenFields(t) # {}
            THEN \A r \in TableGrantees(ds, t) :
                    /\ Cardinality(GrantsTo(r, table_name_of(ds, t))) = 1
                    /\ \A i \in GrantsTo(r, table_name_of(ds, t)) :
                          ColumnsOf(Issued[i]) = PlainColumns(t)
            ELSE WholeTableGrantedOnce(ds, t)

\* C26, amended: for a table with a field auth each grantee of the table's
\* scope-set gets one grant for each field without an auth, naming that one
\* column, and no other grant; for a table without a field auth, exactly
\* one grant of the whole table and none of a column.
C26_OneGrantPerPlainColumn ==
    Committed =>
        \A ds \in RunSchemas : \A t \in RangeOf(get_tables(ds)) :
            IF OverriddenFields(t) # {}
            THEN \A r \in TableGrantees(ds, t) :
                    /\ Cardinality(GrantsTo(r, table_name_of(ds, t))) = Cardinality(PlainColumns(t))
                    /\ \A c \in PlainColumns(t) :
                          \E i \in GrantsTo(r, table_name_of(ds, t)) : ColumnsOf(Issued[i]) = {c}
            ELSE WholeTableGrantedOnce(ds, t)

\* a run under AUTO granted id and eind_geldigheid of bouwblokken to
\* scope_level_b in two statements and buurten as a whole
C26_Witness ==
    /\ Committed
    /\ gebieden_schema_auth \in RunSchemas
    /\ run.args.role = AUTO
    /\ Cardinality(GrantsTo(<<"s", "c", "o", "p", "e", "_", "l", "e", "v", "e", "l", "_", "b">>, Name.gebieden_bouwblokken)) = 2
    /\ Cardinality(GrantsTo(<<"s", "c", "o", "p", "e", "_", "l", "e", "v", "e", "l", "_", "a">>, Name.gebieden_buurten)) = 1

(***************************************************************************)
(* Two more claims about the events processor.                             *)
(***************************************************************************)
\* what the same fetch_blob call gives on a processor newly built from the
\* same datasets
FreshResult ==
    process_message(datasets, use_dimension_fields,
                    init_geo_fields(datasets, 1, EmptyGeoFields),
                    call.message_key, call.message_headers, call.message_body,
                    call.current_blob_value).res

\* C27: a fetch_blob call leaves the loaded schemas (their
\* use_dimension_fields) and the geo-field index of the processor as they
\* were, and returns what the same call returns on a processor that has
\* processed nothing yet.
C27_ProjectionIsPure ==
    [][(pc = "idle" /\ pc' = "returned") =>
          /\ datasets' = datasets
          /\ use_dimension_fields' = use_dimension_fields
          /\ geo_fields' = geo_fields
          /\ result' = FreshResult']_vars

\* the fields of the table that the schema flags as geo
SchemaGeoNames(table) ==
    {table.fields[i].name : i \in {j \in DOMAIN table.fields : table.fields[j].type \in GeoJsonTypes}}

\* C28: for every loaded dataset and every table of it, the geo-field list
\* the processor uses is the set of the fields the schema flags as geo; and
\* an ADD for a loaded dataset that succeeds stores every non-null geometry
\* with its SRID prefix.
C28_GeoIndexCoversEveryDataset ==
    /\ \A d \in Range(datasets) : \A t \in Range(SchemaDocs[d].tables) :
          Range(geo_fields_get(geo_fields, d, t.id).val) = SchemaGeoNames(t)
    /\ (ReturnedFrom("ADD") /\ result.status = "ok" /\ CallSchemaKnown) =>
          \A f \in CallSchemaGeoNames \cap DOMAIN CallExtracted :
              CallExtracted[f].t # "null" =>
                  result.blob.fields[f] = Prefixed(CallSrid, CallExtracted[f])

\* a run of apply_schema_and_profile_permissions was ended by an exception
ApplyRaised ==
    /\ apply_pc = "returned"
    /\ run.op \in {"apply", "apply_commit_fails"}
    /\ run.out.error # NoError

\* C29: a run that is ended by an exception leaves every privilege as it
\* was before the run, whether the run had changed it by a grant of the
\* schema, a revoke, or a grant of a profile.
C29_FailedRunChangesNothing ==
    ApplyRaised => pg_acl = run.before.c_acl

\* the roles the run sent a grant of the schema to
RolesGranted ==
    {run.out.printed[i].text.role : i \in {j \in DOMAIN run.out.printed :
        run.out.printed[j].status_msg = "Executed" /\ run.out.printed[j].text.verb = "GRANT"}}

\* C30: existing_roles holds a role only if CREATE ROLE was sent for it and
\* the role is in the backend; and an executing run with create_roles (and
\* without profiles) is not ended by an exception and has sent its grants
\* to roles that are in the backend when it returns.
C30_MemoHoldsCreatedRolesOnly ==
    /\ \A r \in existing_roles : Count(create_role_issued, r) >= 1 /\ r \in pg_roles
    /\ (RunReturned /\ Executing /\ run.args.create_roles /\ run.args.profiles = <<>>) =>
          /\ run.out.error = NoError
          /\ RolesGranted \subseteq pg_roles

====
